---- MODULE Spec2Model ----
(***************************************************************************)
(* Model of Gaggle (src/src/gaggle/gaggle.py, src/src/gaggle/exceptions.py) *)
(* : construction of an AnkiCard (field-name resolution), the header        *)
(* writer and reader of an AnkiDeck, and the parse of an exported file.     *)
(*                                                                          *)
(* Python values of mixed type (None, int, str) are tagged records, so     *)
(* that values of different types compare unequal: None, PyInt(3), PyStr("x"). *)
(***************************************************************************)
EXTENDS Integers, Sequences, FiniteSets, TLC

VARIABLES
  pc,             \* position of the running call: "idle", "gen", "done"
  fields,         \* AnkiCard argument fields: the row's values
  field_names,    \* AnkiCard argument field_names: the candidate names
  has_html,       \* AnkiCard.has_html
  property_indexes, \* AnkiCard.__init__ local: [tags_idx, deck_idx, note_type_idx, guid_idx]
  reserved_names, \* AnkiCard.__init__ local: index -> reserved name
  seen_names,     \* the set handed to _generate_unique_field_names
  count,          \* loop counter of _generate_unique_field_names
  yielded,        \* names the generator has yielded so far
  caught,         \* log of warnings.catch_warnings(record=True)
  sink,           \* warnings delivered to the caller of AnkiCard(...)
  raised,         \* exception that left the call, "none" when there is none
  card,           \* AnkiCard.fields: sequence of <<name, value>>, in order
  dpc,            \* position of the deck-level call
  deck_header,    \* AnkiDeck.header of the deck that is written
  out,            \* the lines written to the output stream
  stream,         \* the lines of the stream that is read
  pos,            \* reader position: lines of stream consumed so far
  col,            \* characters of the line at pos that were read already
  header,         \* the mapping parse_header_settings returned
  names_arg,      \* _parse_anki_export argument field_names
  cards,          \* _parse_anki_export local cards / AnkiDeck.cards
  wire_header,    \* the mapping handed to reformat_header_settings, as it was
  lookup,         \* the last accessor call on the card and its outcome
  first,          \* outcome of the first of two equal AnkiCard(...) calls
  reformat_direction, \* reformat_header_settings argument direction
  gpc,            \* position of the running call of a Gaggle method
  caller,         \* the Gaggle method that was called
  decks,          \* Gaggle.decks
  directory,      \* the destination directory: file name -> lines of the file
  settled,        \* the files other writers created and the files of ended
                  \* write_deck_to_file calls, with the content they had then
  deck_arg,       \* write_deck_to_file argument deck (its place in decks)
  filename,       \* _generate_unique_file_path local filename
  file_type,      \* write_deck_to_file argument file_type
  tag,            \* _generate_unique_file_path local tag
  modified_filename, \* _generate_unique_file_path local modified_filename
  file_path,      \* _generate_unique_file_path local file_path
  file_types,     \* write_all_decks_to_file argument kwargs['file_type']
  idx,            \* write_all_decks_to_file loop variable idx
  last_written_deck_idx, \* write_all_decks_to_file local
  gaggle_raised   \* exception that left the Gaggle method

cardVars == <<pc, fields, field_names, has_html, property_indexes,
              reserved_names, seen_names, count, yielded, caught, sink, raised,
              card>>

cardVarsButRaised == <<pc, fields, field_names, has_html, property_indexes,
                       reserved_names, seen_names, count, yielded, caught, sink,
                       card>>

deckVars == <<dpc, deck_header, out, stream, pos, col, header, names_arg, cards,
              wire_header>>

pathVars == <<deck_arg, filename, file_type, tag, modified_filename, file_path>>

loopVars == <<file_types, idx, last_written_deck_idx>>

gaggleVars == <<gpc, caller, decks, directory, settled, pathVars, loopVars,
                gaggle_raised>>

otherVars == <<first, reformat_direction, gaggleVars>>

vars == <<cardVars, deckVars, lookup, otherVars>>

-----------------------------------------------------------------------------
(* Bounds of the model *)

MaxFields == 2
MaxNames == 3

-----------------------------------------------------------------------------
(* Python values *)

None == [none |-> TRUE]
PyInt(n) == [int |-> n]
PyStr(s) == [str |-> s]
PyBool(b) == [bool |-> b]

IsInt(v) == DOMAIN v = {"int"}

Range(s) == {s[i] : i \in 1..Len(s)}

\* Raising an exception in place of returning a value.
Raises(exc) == [raises |-> exc]
IsRaise(v) == DOMAIN v = {"raises"}

\* Decimal literals: f'{n}' of an int and int(s) of a str.
Decimals == <<"0", "1", "2", "3", "4", "5", "6", "7", "8", "9">>
FormatInt(n) == IF n >= 0 THEN Decimals[n + 1] ELSE "-" \o Decimals[1 - n]
IsIntLiteral(s) == \E n \in -9..9 : FormatInt(n) = s
ParseInt(s) == CHOOSE n \in -9..9 : FormatInt(n) = s

\* f'{value}' of a str or an int.
Format(v) == IF IsInt(v) THEN FormatInt(v.int) ELSE v.str

\* dict as the sequence of its <<key, value>> items in insertion order.
DictKeys(d) == {d[i][1] : i \in 1..Len(d)}
DictGet(d, k) ==
  IF k \in DictKeys(d)
  THEN d[CHOOSE i \in 1..Len(d) : d[i][1] = k][2]
  ELSE None
DictSet(d, k, v) ==
  IF k \in DictKeys(d)
  THEN [i \in 1..Len(d) |-> IF d[i][1] = k THEN <<k, v>> ELSE d[i]]
  ELSE Append(d, <<k, v>>)
DictDel(d, k) == SelectSeq(d, LAMBDA item : item[1] # k)

RECURSIVE SeqsUpTo(_, _)
SeqsUpTo(S, n) ==
  IF n = 0 THEN {<<>>}
  ELSE LET shorter == SeqsUpTo(S, n - 1)
       IN shorter \cup {Append(s, x) : s \in {t \in shorter : Len(t) = n - 1}, x \in S}

-----------------------------------------------------------------------------
(* Input domains *)

FieldValues == <<"v0", "v1", "v2", "v3", "v4">>
CandidateNames == {"", "Foo", "Deck", "Field1"}
HtmlValues == {PyStr("false"), PyStr("true")}
IndexValues == {None} \cup {PyInt(k) : k \in 0..MaxFields}
TagsIndexes == IndexValues
DeckIndexes == IndexValues
NoteTypeIndexes == {None, PyInt(1)}
GuidIndexes == {None, PyInt(0)}

\* Internal headers: each of the six settings absent, None or a value.
MaxIndex == 1
Absent == [absent |-> TRUE]
SeparatorValues == {Absent, None, PyStr("tab")}
HasHtmlValues == {Absent, None, PyStr("true"), PyStr("false")}
ColumnValues == {Absent, None} \cup {PyInt(k) : k \in 0..MaxIndex}
InternalHeaders ==
  {SelectSeq(<< <<"separator", s>>, <<"has_html", h>>, <<"guid_idx", g>>,
                <<"note_type_idx", n>>, <<"deck_idx", d>>, <<"tags_idx", t>> >>,
             LAMBDA item : item[2] # Absent) :
     s \in SeparatorValues, h \in HasHtmlValues, g \in ColumnValues,
     n \in ColumnValues, d \in ColumnValues, t \in ColumnValues}

\* The headers of the decks that are written: the settings inserted in the
\* order above or in the opposite order.
Reverse(s) == [i \in 1..Len(s) |-> s[Len(s) + 1 - i]]
HeaderArguments == InternalHeaders \cup {Reverse(h) : h \in InternalHeaders}

\* Headers handed to reformat_header_settings: in the naming of the file or
\* in the internal naming (there also with a None value), and the same with
\* an item of another naming or of no naming put at any place.
WireSample ==
  {SelectSeq(<< <<"separator", s>>, <<"html", h>>, <<"guid column", g>>,
                <<"tags column", t>> >>,
             LAMBDA item : item[2] # Absent) :
     s \in {Absent, PyStr("tab")}, h \in {Absent, PyStr("true")},
     g \in {Absent, PyInt(1), PyInt(2)}, t \in {Absent, PyInt(3)}}
InternalSample ==
  {SelectSeq(<< <<"separator", s>>, <<"has_html", h>>, <<"guid_idx", g>>,
                <<"tags_idx", t>> >>,
             LAMBDA item : item[2] # Absent) :
     s \in {Absent, PyStr("tab")}, h \in {Absent, PyStr("true")},
     g \in {Absent, None, PyInt(0), PyInt(1)}, t \in {Absent, PyInt(2)}}
OtherItems ==
  { <<"foo", PyInt(1)>>, <<"guid_idx", PyInt(0)>>, <<"guid column", PyInt(1)>> }
Insert(s, k, item) == SubSeq(s, 1, k) \o <<item>> \o SubSeq(s, k + 1, Len(s))
ReformatArguments ==
  LET sample == WireSample \cup InternalSample
      Inserted(h) ==
        UNION {{Insert(h, k, item) : k \in 0..Len(h)} :
                 item \in {i \in OtherItems : i[1] \notin DictKeys(h)}}
  IN sample \cup UNION {Inserted(h) : h \in sample}
ReformatDirections ==
  <<"anki_to_gaggle", "gaggle_to_anki">>

\* Headers in the naming of the file, as read_header_settings leaves them:
\* each of the six settings absent or a value, a column a 1-indexed integer.
WireColumnValues == {Absent} \cup {PyInt(k) : k \in 1..(MaxIndex + 2)}
WireHeaders ==
  {SelectSeq(<< <<"separator", s>>, <<"html", h>>, <<"guid column", g>>,
                <<"notetype column", n>>, <<"deck column", d>>,
                <<"tags column", t>> >>,
             LAMBDA item : item[2] # Absent) :
     s \in {Absent, PyStr("tab"), PyStr("comma")},
     h \in {Absent, PyStr("true"), PyInt(1)},
     g \in WireColumnValues, n \in WireColumnValues, d \in WireColumnValues,
     t \in WireColumnValues \cup {PyInt(7)}}

\* Exported files: a subset of the header lines, then rows of cells.
MaxRows == 2
MaxCols == 3
WireLine(name, value) == <<"#", name, ":", value, "\n">>
NoLine == <<>>
\* A header line without the delimiter.
MalformedLine == <<"#", "html", "\n">>
HeaderBlocks ==
  {SelectSeq(<<s, h, g, n, d, t>>, LAMBDA line : line # NoLine) :
     s \in {NoLine, WireLine("separator", "tab"), WireLine("separator", "comma")},
     h \in {NoLine, WireLine("html", "true"), MalformedLine},
     g \in {NoLine, WireLine("guid column", "1"), WireLine("guid column", "2")},
     n \in {NoLine, WireLine("notetype column", "2")},
     d \in {NoLine, WireLine("deck column", "2")},
     t \in {NoLine, WireLine("tags column", "3")}}
CellRest(r, c) == FormatInt(r) \o "c" \o FormatInt(c)
Cell(r, c) == "r" \o CellRest(r, c)
RECURSIVE RowCells(_, _)
RowCells(r, ncols) ==
  IF ncols = 1 THEN <<Cell(r, 0)>>
  ELSE RowCells(r, ncols - 1) \o <<"\t", Cell(r, ncols - 1)>>
DataLine(r, ncols) == RowCells(r, ncols) \o <<"\r", "\n">>
\* A row whose only cell starts with the symbol of the header lines.
HashDataLine == <<"#", "html", ":", "true", "\r", "\n">>
DataBlocks ==
  {[r \in 1..nrows |-> DataLine(r - 1, ncols)] :
     nrows \in 0..MaxRows, ncols \in 1..MaxCols}
  \cup {[r \in 1..nrows |-> DataLine(r - 1, 1)] \o <<HashDataLine>> :
          nrows \in 1..(MaxRows - 1)}
ExportFiles == {hb \o db : hb \in HeaderBlocks, db \in DataBlocks}

\* Files for read_header_settings alone: those above, and files with a
\* header line whose value holds the delimiter or ends in whitespace.
TwoColonLine == <<"#", "html", ":", "a", ":", "b", "\n">>
PaddedLine == <<"#", "html", ":", "true", " ", "\r", "\n">>
PaddedIndexLine == <<"#", "guid column", ":", "2", "\t", "\n">>
ReadBlocks ==
  {SelectSeq(<<s, h, g>>, LAMBDA line : line # NoLine) :
     s \in {NoLine, WireLine("separator", "tab")},
     h \in {NoLine, WireLine("html", "true"), MalformedLine, TwoColonLine, PaddedLine},
     g \in {NoLine, WireLine("guid column", "1"), PaddedIndexLine}}
ReadFiles ==
  ExportFiles \cup {hb \o db : hb \in ReadBlocks, db \in DataBlocks}
FieldNameArguments == SeqsUpTo({"", "Foo"}, 2)

\* A row of n values; the value at 0-based position i is FieldValues[i + 1].
Row(n) == [i \in 1..n |-> FieldValues[i]]

-----------------------------------------------------------------------------
(* AnkiCard *)

_reserved_names == <<"Tags", "Deck", "Note Type", "GUID">>

HeaderBoolean == [FALSE_ |-> "false", TRUE_ |-> "true"]

\* f'Field{count}'
GenericName_generated(c) ==
  "Field" \o FormatInt(Cardinality({k \in 1..Len(yielded) :
                                     /\ (k - 1) \notin DOMAIN reserved_names
                                     /\ \/ k > Len(field_names)
                                        \/ yielded[k] # field_names[k]}))
GenericName(c) == "Field" \o FormatInt(c)

\* _parse_anki_header_bool
_parse_anki_header_bool(bool_as_str) ==
  IF bool_as_str = PyStr(HeaderBoolean.TRUE_) THEN PyBool(TRUE)
  ELSE IF bool_as_str = PyStr(HeaderBoolean.FALSE_) THEN PyBool(FALSE)
  ELSE Raises("ValueError")

\* The dict comprehension of AnkiCard.__init__: property_indexes zipped with
\* _reserved_names, None indexes left out; a later pair with the same index
\* replaces an earlier one.
ReservedNamesDict_signature_order(indexes) ==
  LET in_signature_order == <<indexes[1], indexes[3], indexes[2], indexes[4]>>
      declared == {i \in 1..4 : IsInt(in_signature_order[i])}
      keys == {in_signature_order[i].int : i \in declared}
      last(k) == CHOOSE i \in declared :
                   /\ in_signature_order[i].int = k
                   /\ \A j \in declared : in_signature_order[j].int = k => j <= i
  IN [k \in keys |-> _reserved_names[last(k)]]

ReservedNamesDict(indexes) ==
  LET declared == {i \in 1..4 : IsInt(indexes[i])}
      keys == {indexes[i].int : i \in declared}
      last(k) == CHOOSE i \in declared :
                   /\ indexes[i].int = k
                   /\ \A j \in declared : indexes[j].int = k => j <= i
  IN [k \in keys |-> _reserved_names[last(k)]]

\* reserved_name_set = set(AnkiCard._reserved_names): a new set for every
\* card, handed to the generator as seen_names.
reserved_name_set_shared == seen_names \cup Range(_reserved_names)
reserved_name_set_empty == {}
reserved_name_set_kept ==
  IF seen_names = {} THEN Range(_reserved_names) ELSE seen_names
reserved_name_set == Range(_reserved_names)

\* AnkiCard.__init__ up to the call of _generate_field_dict, which creates the
\* generator _generate_unique_field_names (not yet started).
AnkiCardCall(fields_arg, field_names_arg, html, tags_idx, note_type_idx, deck_idx, guid_idx) ==
  LET parsed_bool == _parse_anki_header_bool(html)
  IN /\ fields' = fields_arg
     /\ field_names' = field_names_arg
     /\ count' = 0
     /\ yielded' = <<>>
     /\ caught' = <<>>
     /\ card' = <<>>
     /\ IF IsRaise(parsed_bool)
        THEN /\ raised' = parsed_bool.raises
             /\ pc' = "done"
             /\ UNCHANGED <<has_html, property_indexes, reserved_names,
                            seen_names>>
        ELSE /\ has_html' = parsed_bool
             /\ property_indexes' =
                  <<tags_idx, deck_idx, note_type_idx, guid_idx>>
             /\ reserved_names' =
                  ReservedNamesDict(<<tags_idx, deck_idx, note_type_idx, guid_idx>>)
             /\ seen_names' = reserved_name_set
             /\ raised' = "none"
             /\ pc' = "gen"

\* A caller constructs one card: AnkiCard(fields, field_names, has_html, ...).
AnkiCardInit ==
  /\ pc = "idle"
  /\ dpc = "idle"
  /\ \E n \in 0..MaxFields, names \in SeqsUpTo(CandidateNames, MaxNames),
        html \in HtmlValues, tags_idx \in TagsIndexes, deck_idx \in DeckIndexes,
        note_type_idx \in NoteTypeIndexes, guid_idx \in GuidIndexes :
       AnkiCardCall(Row(n), names, html, tags_idx, note_type_idx, deck_idx,
                    guid_idx)
  /\ UNCHANGED <<sink, deckVars, lookup, otherVars>>

\* A caller constructs a second card from the inputs of the card constructed
\* before: AnkiCard(fields, field_names, has_html, ...) once more.
AnkiCardAgain ==
  /\ pc = "done"
  /\ dpc = "idle"
  /\ first = None
  /\ UNCHANGED <<reformat_direction, gaggleVars>>
  /\ first' = [raised |-> raised, yielded |-> yielded, card |-> card,
               caught |-> caught, sink |-> sink, fields |-> fields,
               field_names |-> field_names]
  /\ AnkiCardCall(fields, field_names,
                  PyStr(IF has_html = PyBool(TRUE) THEN HeaderBoolean.TRUE_
                        ELSE HeaderBoolean.FALSE_),
                  property_indexes[1], property_indexes[3],
                  property_indexes[2], property_indexes[4])
  /\ UNCHANGED <<sink, deckVars, lookup>>

\* An exception leaves the generator: the with block of
\* propagate_warnings_from_generator is left by the exception, the loop that
\* re-raises the caught warnings is not run, and the exception leaves zip,
\* OrderedDict, _generate_field_dict and AnkiCard.__init__.
Raise(exc, log) ==
  /\ raised' = exc
  /\ caught' = log
  /\ pc' = "done"
  /\ UNCHANGED <<fields, field_names, has_html, property_indexes,
                 reserved_names, seen_names, count, yielded, sink, card,
                 deckVars, lookup, otherVars>>

\* The generator yields name: zip pairs it with the next field value.
Yield(name, seen) ==
  /\ yielded' = Append(yielded, name)
  /\ seen_names' = seen
  /\ count' = count + 1
  /\ UNCHANGED <<pc, fields, field_names, has_html, property_indexes,
                 reserved_names, sink, raised, card, deckVars, lookup, otherVars>>

\* next(field_names, None) is not None
HasName == count < Len(field_names)
\* next(fields, None) is not None
HasField == count < Len(fields)
Name == field_names[count + 1]

\* zip(names, values, strict=True) once both are known to have one length.
Zip(names, values) == [i \in 1..Len(names) |-> <<names[i], values[i]>>]

\* collections.OrderedDict(pairs): a key keeps the place of its first
\* insertion and the value of its last.
RECURSIVE OrderedDict(_)
OrderedDict(pairs) ==
  IF pairs = <<>> THEN <<>>
  ELSE LET front == OrderedDict(SubSeq(pairs, 1, Len(pairs) - 1))
           item == pairs[Len(pairs)]
       IN IF \E i \in 1..Len(front) : front[i][1] = item[1]
          THEN [i \in 1..Len(front) |->
                  IF front[i][1] = item[1] THEN item ELSE front[i]]
          ELSE Append(front, item)

\* name in seen_names (line 873); next(field_names, None) gave a name.
IsDuplicate_never == FALSE
IsDuplicate == HasName /\ Name \in seen_names

\* seen_names.add(name) (line 884)
SeenAfter_forgets(name) == seen_names
SeenAfter(name) == seen_names \cup {name}

DuplicateWarning(duplicate_value, replacement_value) ==
  [category |-> "DuplicateWarning", duplicate_value |-> duplicate_value,
   replacement_value |-> replacement_value]

\* Loop body, fields exhausted (lines 855-863), and what follows the
\* generator's return in its callers.
GenReturn ==
  /\ pc = "gen"
  /\ ~HasField
  /\ IF HasName
     THEN \* LeftoverArgumentWarning.from_values([name], field_names,
          \* context_message=..., leftover_name=...): the first positional
          \* argument and the keyword both bind context_message.
          Raise("TypeError", caught)
     ELSE \* return: the with block ends, the caught warnings are re-raised
          \* to the caller; zip(strict=True) finds fields exhausted too, and
          \* OrderedDict is built from the pairs.
          /\ sink' = sink \o caught
          /\ card' = OrderedDict(Zip(yielded, fields))
          /\ pc' = "done"
          /\ UNCHANGED <<fields, field_names, has_html, property_indexes,
                         reserved_names, seen_names, count, yielded, caught,
                         raised, deckVars, lookup, otherVars>>

\* Loop body at an index with a reserved name (lines 864-871).
GenReserved ==
  /\ pc = "gen"
  /\ HasField
  /\ count \in DOMAIN reserved_names
  /\ LET reserved_name == reserved_names[count]
     IN IF HasName /\ Name # "" /\ Name # reserved_name
        THEN \* exceptions.HeaderFieldNameMismatchWarning: the module
             \* gaggle.exceptions has no such attribute.
             Raise("AttributeError", caught)
        ELSE /\ Yield(reserved_name, seen_names)
             /\ UNCHANGED caught

\* Loop body at an index without a reserved name (lines 872-884).
GenPlain ==
  /\ pc = "gen"
  /\ HasField
  /\ count \notin DOMAIN reserved_names
  /\ LET duplicate == IsDuplicate
         log == IF duplicate
                THEN Append(caught, DuplicateWarning(Name, GenericName(count)))
                ELSE caught
         generic == ~HasName \/ duplicate \/ Name = ""
         name == IF generic THEN GenericName(count) ELSE Name
     IN IF generic /\ name \in seen_names
        THEN Raise("ValueError", log)
        ELSE /\ Yield(name, SeenAfter(name))
             /\ caught' = log

-----------------------------------------------------------------------------
(* Text: a stream is a sequence of lines, a line a sequence of atoms. An    *)
(* atom is one of the characters "#", ":", tab, space, CR, LF, or a maximal *)
(* run of other characters.                                                 *)

Whitespace == {" ", "\t", "\r", "\n"}

\* str.join of the atoms of a piece of text
RECURSIVE Join(_)
Join(atoms) == IF atoms = <<>> THEN "" ELSE Head(atoms) \o Join(Tail(atoms))

\* The atoms of f'{value}' for the values of the model.
Atoms(text) == IF text = "" THEN <<>> ELSE <<text>>

\* str.split(delimiter, 1): the pieces before and after the first delimiter.
Split_once(atoms, delimiter) ==
  IF \E i \in 1..Len(atoms) : atoms[i] = delimiter
  THEN LET i == CHOOSE k \in 1..Len(atoms) :
                  /\ atoms[k] = delimiter
                  /\ \A j \in 1..(k - 1) : atoms[j] # delimiter
       IN <<SubSeq(atoms, 1, i - 1), SubSeq(atoms, i + 1, Len(atoms))>>
  ELSE <<atoms>>

\* str.split(delimiter): the pieces between the delimiters.
RECURSIVE Split(_, _)
Split(atoms, delimiter) ==
  IF \E i \in 1..Len(atoms) : atoms[i] = delimiter
  THEN LET i == CHOOSE k \in 1..Len(atoms) :
                  /\ atoms[k] = delimiter
                  /\ \A j \in 1..(k - 1) : atoms[j] # delimiter
       IN <<SubSeq(atoms, 1, i - 1)>> \o
            Split(SubSeq(atoms, i + 1, Len(atoms)), delimiter)
  ELSE <<atoms>>

\* str.rstrip()
RECURSIVE RStrip(_)
RStrip(atoms) ==
  IF atoms # <<>> /\ atoms[Len(atoms)] \in Whitespace
  THEN RStrip(SubSeq(atoms, 1, Len(atoms) - 1))
  ELSE atoms

-----------------------------------------------------------------------------
(* Header settings *)

_ANKI_EXPORT_HEADER_LINE_SYMBOL == "#"
_ANKI_EXPORT_HEADER_DELIMITER_SYMBOL == ":"
_ANKI_EXPORT_HEADER_SETTING_SEPARATOR_NAME == "separator"
_ANKI_EXPORT_HEADER_SETTING_SEPARATOR_TSV_STRING == "tab"

_ANKI_EXPORT_HEADER_MAPPING ==
  << <<"html", "has_html">>,
     <<"tags column", "tags_idx">>,
     <<"notetype column", "note_type_idx">>,
     <<"deck column", "deck_idx">>,
     <<"guid column", "guid_idx">>,
     <<_ANKI_EXPORT_HEADER_SETTING_SEPARATOR_NAME, "separator">> >>

_ANKI_EXPORT_HEADER_MAPPING_REVERSE ==
  [i \in 1..Len(_ANKI_EXPORT_HEADER_MAPPING) |->
     <<_ANKI_EXPORT_HEADER_MAPPING[i][2], _ANKI_EXPORT_HEADER_MAPPING[i][1]>>]

_ANKI_ORDERED_HEADER ==
  <<"separator", "html", "guid column", "notetype column", "deck column",
    "tags column">>

ReformatDirection ==
  [ANKI_TO_GAGGLE |-> "anki_to_gaggle", GAGGLE_TO_ANKI |-> "gaggle_to_anki"]

_DIRECTION_TRANSLATION_VALUE_unshifted(direction) == 0
_DIRECTION_TRANSLATION_VALUE_one_way(direction) == -1
_DIRECTION_TRANSLATION_VALUE(direction) ==
  IF direction = ReformatDirection.ANKI_TO_GAGGLE THEN -1 ELSE 1

_DIRECTION_MAPPING(direction) ==
  IF direction = ReformatDirection.ANKI_TO_GAGGLE
  THEN _ANKI_EXPORT_HEADER_MAPPING
  ELSE _ANKI_EXPORT_HEADER_MAPPING_REVERSE

\* transform_integer_value: int(value) raises TypeError for None, which the
\* except ValueError clause does not catch; a str that is no integer literal
\* is returned as it is.
transform_integer_value(value, translation, scale) ==
  IF value = None THEN Raises("TypeError")
  ELSE IF IsInt(value) THEN PyInt((value.int + translation) * scale)
  ELSE IF IsIntLiteral(value.str)
       THEN PyInt((ParseInt(value.str) + translation) * scale)
       ELSE value

\* The loop of reformat_header_settings over header.items(), filling
\* reformatted_header.
RECURSIVE ReformatItems(_, _, _)
ReformatItems(items, direction, reformatted_header) ==
  IF items = <<>> THEN [raises |-> "none", header |-> reformatted_header]
  ELSE LET setting == items[1][1]
           value == items[1][2]
           reformat_mapping == _DIRECTION_MAPPING(direction)
       IN IF setting \notin DictKeys(reformat_mapping)
          THEN [raises |-> "KeyError", header |-> <<>>]
          ELSE LET new_key == DictGet(reformat_mapping, setting)
                   new_value == transform_integer_value(
                                  value, _DIRECTION_TRANSLATION_VALUE(direction), 1)
               IN IF IsRaise(new_value)
                  THEN [raises |-> new_value.raises, header |-> <<>>]
                  ELSE ReformatItems(Tail(items), direction,
                                     DictSet(reformatted_header, new_key, new_value))

\* reformat_header_settings: the mapping header holds after the call; when
\* the loop raises, header.clear() and header.update() are not reached.
reformat_header_settings_cleared(hdr, direction) ==
  ReformatItems(hdr, direction, <<>>)
reformat_header_settings(hdr, direction) ==
  LET r == ReformatItems(hdr, direction, <<>>)
  IN IF r.raises = "none" THEN r ELSE [raises |-> r.raises, header |-> hdr]

\* _copy_and_reformat: the reformatted deep copy, or the exception, and the
\* mapping original after the call. Without the deep copy it is original
\* that reformat_header_settings transforms.
_copy_and_reformat_in_place(original, direction) ==
  LET r == reformat_header_settings(original, direction)
  IN [raises |-> r.raises, header |-> r.header, original |-> r.header]
_copy_and_reformat(original, direction) ==
  LET deep_copy == original
      r == reformat_header_settings(deep_copy, direction)
  IN [raises |-> r.raises, header |-> r.header, original |-> original]

\* The header line of one setting (lines 751-752).
HeaderLine(setting_name, setting_value) ==
  <<_ANKI_EXPORT_HEADER_LINE_SYMBOL, setting_name,
    _ANKI_EXPORT_HEADER_DELIMITER_SYMBOL>> \o Atoms(Format(setting_value)) \o <<"\n">>

\* The loop of AnkiDeck.write_header over _ANKI_ORDERED_HEADER.
RECURSIVE WriteSettings(_, _)
WriteSettings(header_copy, setting_names) ==
  IF setting_names = <<>> THEN <<>>
  ELSE LET setting_value == DictGet(header_copy, Head(setting_names))
           rest == WriteSettings(header_copy, Tail(setting_names))
       IN IF setting_value # None
          THEN <<HeaderLine(Head(setting_names), setting_value)>> \o rest
          ELSE rest

\* AnkiDeck.write_header: the lines written to f, the exception if any, and
\* self.header after the call.
write_header_in_insertion_order(self_header) ==
  LET header_copy == _copy_and_reformat(self_header, ReformatDirection.GAGGLE_TO_ANKI)
  IN IF header_copy.raises # "none"
     THEN [raises |-> header_copy.raises, lines |-> <<>>,
           self_header |-> header_copy.original]
     ELSE [raises |-> "none",
           lines |-> WriteSettings(header_copy.header,
                                   [i \in 1..Len(header_copy.header) |->
                                      header_copy.header[i][1]]),
           self_header |-> header_copy.original]
write_header(self_header) ==
  LET header_copy == _copy_and_reformat(self_header, ReformatDirection.GAGGLE_TO_ANKI)
  IN IF header_copy.raises # "none"
     THEN [raises |-> header_copy.raises, lines |-> <<>>,
           self_header |-> header_copy.original]
     ELSE [raises |-> "none",
           lines |-> WriteSettings(header_copy.header, _ANKI_ORDERED_HEADER),
           self_header |-> header_copy.original]

\* read_header_settings from reader position p: the header read, and the
\* position the stream is left at. f.read(1) looks one character ahead and
\* f.seek(reader_pos) steps back to the start of the first line without '#'.
RECURSIVE read_header_settings(_, _, _)
\* f.seek(offset) when the stream is at the position current.
seek_nowhere(offset, current) == current
seek(offset, current) == offset

read_header_settings_skips(f, p, hdr) ==
  IF p < Len(f) /\ f[p + 1] # <<>> /\ f[p + 1][1] = _ANKI_EXPORT_HEADER_LINE_SYMBOL
  THEN LET line == Tail(f[p + 1])
           parts == Split(line, _ANKI_EXPORT_HEADER_DELIMITER_SYMBOL)
       IN IF Len(parts) # 2
          THEN read_header_settings(f, p + 1, hdr)
          ELSE LET setting == Join(parts[1])
                   value == transform_integer_value(
                              PyStr(Join(RStrip(parts[2]))), 0, 1)
               IN read_header_settings(f, p + 1, DictSet(hdr, setting, value))
  ELSE LET reader_pos == [line |-> p, col |-> 0]
           read == [line |-> p,
                    col |-> IF p < Len(f) /\ f[p + 1] # <<>> THEN 1 ELSE 0]
           at == seek(reader_pos, read)
       IN [raises |-> "none", header |-> hdr, pos |-> at.line, col |-> at.col]

read_header_settings(f, p, hdr) ==
  IF p < Len(f) /\ f[p + 1] # <<>> /\ f[p + 1][1] = _ANKI_EXPORT_HEADER_LINE_SYMBOL
  THEN LET line == Tail(f[p + 1])
           parts == Split(line, _ANKI_EXPORT_HEADER_DELIMITER_SYMBOL)
       IN IF Len(parts) # 2
          THEN [raises |-> "ValueError", header |-> hdr, pos |-> p + 1, col |-> 0]
          ELSE LET setting == Join(parts[1])
                   value == transform_integer_value(
                              PyStr(Join(RStrip(parts[2]))), 0, 1)
               IN read_header_settings(f, p + 1, DictSet(hdr, setting, value))
  ELSE LET reader_pos == [line |-> p, col |-> 0]
           read == [line |-> p,
                    col |-> IF p < Len(f) /\ f[p + 1] # <<>> THEN 1 ELSE 0]
           at == seek(reader_pos, read)
       IN [raises |-> "none", header |-> hdr, pos |-> at.line, col |-> at.col]

\* parse_header_settings
parse_header_settings(f, p) ==
  LET read == read_header_settings(f, p, <<>>)
  IN IF read.raises # "none" THEN read
     ELSE LET r == reformat_header_settings(read.header,
                                            ReformatDirection.ANKI_TO_GAGGLE)
          IN [raises |-> r.raises, header |-> r.header, pos |-> read.pos,
              col |-> read.col]

\* read_header_settings(f) on a stream at its start.
ReadHeaderSettings ==
  /\ dpc = "idle"
  /\ pc = "idle"
  /\ \E file \in ReadFiles :
       LET r == read_header_settings(file, 0, <<>>)
       IN /\ stream' = file
          /\ pos' = r.pos
          /\ col' = r.col
          /\ raised' = r.raises
          /\ header' = IF r.raises = "none" THEN r.header ELSE <<>>
  /\ dpc' = "read"
  /\ UNCHANGED <<cardVarsButRaised, deck_header, out, names_arg, cards, wire_header, lookup, otherVars>>

\* A deck with the header h is written with AnkiDeck.write_header.
DeckWriteHeader ==
  /\ dpc = "idle"
  /\ pc = "idle"
  /\ \E h \in HeaderArguments :
       LET w == write_header(h)
       IN /\ deck_header' = w.self_header
          /\ out' = w.lines
          /\ raised' = w.raises
  /\ dpc' = "written"
  /\ UNCHANGED <<cardVarsButRaised, stream, pos, col, header, names_arg, cards, wire_header, lookup, otherVars>>

\* The text written is read back with parse_header_settings.
ParseWrittenHeader ==
  /\ dpc = "written"
  /\ raised = "none"
  /\ LET r == parse_header_settings(out, 0)
     IN /\ stream' = out
        /\ pos' = r.pos
        /\ col' = r.col
        /\ header' = r.header
        /\ raised' = r.raises
  /\ dpc' = "parsed"
  /\ UNCHANGED <<cardVarsButRaised, deck_header, out, names_arg, cards, wire_header, lookup, otherVars>>

\* reformat_header_settings(header, direction=ReformatDirection.ANKI_TO_GAGGLE)
\* on a header in the naming of the file; header is transformed in place.
ReformatToGaggle ==
  /\ dpc = "idle"
  /\ pc = "idle"
  /\ \E h \in WireHeaders :
       LET r == reformat_header_settings(h, ReformatDirection.ANKI_TO_GAGGLE)
       IN /\ wire_header' = h
          /\ header' = r.header
          /\ raised' = r.raises
  /\ dpc' = "reformatted"
  /\ UNCHANGED <<cardVarsButRaised, deck_header, out, stream, pos, col, names_arg,
                 cards, lookup, otherVars>>

\* reformat_header_settings(header, direction) on a header with or without
\* keys that the direction does not support.
ReformatHeader ==
  /\ dpc = "idle"
  /\ pc = "idle"
  /\ \E h \in ReformatArguments, to \in Range(ReformatDirections) :
       LET r == reformat_header_settings(h, to)
       IN /\ wire_header' = h
          /\ reformat_direction' = to
          /\ header' = r.header
          /\ raised' = r.raises
  /\ dpc' = "translated"
  /\ UNCHANGED <<cardVarsButRaised, deck_header, out, stream, pos, col, names_arg,
                 cards, lookup, first, gaggleVars>>

\* reformat_header_settings(header, direction=ReformatDirection.GAGGLE_TO_ANKI)
\* on the header reformatted before.
ReformatToAnki ==
  /\ dpc = "reformatted"
  /\ raised = "none"
  /\ LET r == reformat_header_settings(header, ReformatDirection.GAGGLE_TO_ANKI)
     IN /\ header' = r.header
        /\ raised' = r.raises
  /\ dpc' = "restored"
  /\ UNCHANGED <<cardVarsButRaised, deck_header, out, stream, pos, col, names_arg,
                 cards, wire_header, lookup, otherVars>>

-----------------------------------------------------------------------------
(* Parsing an exported file *)

\* The text of a line after its first character.
AfterChar(line) ==
  IF line[1] \in Whitespace \cup {"#", ":"} THEN Tail(line)
  ELSE LET rc == CHOOSE rc \in (0..MaxRows) \X (0..MaxCols) :
                   line[1] = Cell(rc[1], rc[2])
       IN <<CellRest(rc[1], rc[2])>> \o Tail(line)

\* What is left to read of a line of which c characters were read.
Unread(line, c) == IF c = 0 THEN line ELSE AfterChar(line)

\* One row of csv.reader(f, dialect='excel-tab'): the line without its
\* terminator, cut at the tabs; an empty line is an empty row.
RowOf(line) ==
  LET body == RStrip(line)
      cells == Split(body, "\t")
  IN IF body = <<>> THEN <<>> ELSE [i \in 1..Len(cells) |-> Join(cells[i])]

\* A keyword argument of AnkiCard taken from **header, or its default.
Keyword(hdr, key, default) ==
  IF key \in DictKeys(hdr) THEN DictGet(hdr, key) ELSE default

\* _parse_anki_export (called by AnkiDeck.from_file) up to the first row:
\* the header is parsed and the separator setting is looked up.
ParseAnkiExport ==
  /\ dpc = "idle"
  /\ pc = "idle"
  /\ \E file \in ExportFiles, names \in FieldNameArguments :
       LET parsed == parse_header_settings(file, 0)
           seperator_setting_key == _ANKI_EXPORT_HEADER_SETTING_SEPARATOR_NAME
           tsv == _ANKI_EXPORT_HEADER_SETTING_SEPARATOR_TSV_STRING
       IN /\ stream' = file
          /\ names_arg' = names
          /\ pos' = parsed.pos
          /\ col' = parsed.col
          /\ cards' = <<>>
          /\ IF parsed.raises # "none"
             THEN /\ raised' = parsed.raises
                  /\ header' = <<>>
                  /\ dpc' = "failed"
             ELSE IF seperator_setting_key \notin DictKeys(parsed.header)
             THEN \* header[seperator_setting_key]
                  /\ raised' = "KeyError"
                  /\ header' = parsed.header
                  /\ dpc' = "failed"
             ELSE IF DictGet(parsed.header, seperator_setting_key) = PyStr(tsv)
             THEN /\ raised' = "none"
                  /\ header' = DictDel(parsed.header, seperator_setting_key)
                  /\ dpc' = "rows"
             ELSE \* no rows are read; the deck has no cards
                  /\ raised' = "none"
                  /\ header' = parsed.header
                  /\ dpc' = "returned"
  /\ UNCHANGED <<cardVarsButRaised, deck_header, out, wire_header, lookup, otherVars>>

\* create_cards_from_tsv: the next row is read and AnkiCard(card,
\* field_names=field_names, **header) is called.
CreateCard ==
  /\ dpc = "rows"
  /\ pos < Len(stream)
  /\ AnkiCardCall(RowOf(Unread(stream[pos + 1], col)), names_arg,
                  Keyword(header, "has_html", PyStr(HeaderBoolean.FALSE_)),
                  Keyword(header, "tags_idx", None),
                  Keyword(header, "note_type_idx", None),
                  Keyword(header, "deck_idx", None),
                  Keyword(header, "guid_idx", None))
  /\ pos' = pos + 1
  /\ col' = 0
  /\ dpc' = "card"
  /\ UNCHANGED <<sink, deck_header, out, stream, header, names_arg, cards, wire_header, lookup, otherVars>>

\* AnkiCard(...) has ended: the card is appended to the deck, or its
\* exception leaves create_cards_from_tsv and _parse_anki_export.
CardDone ==
  /\ dpc = "card"
  /\ pc = "done"
  /\ IF raised = "none"
     THEN /\ cards' = Append(cards, card)
          /\ dpc' = "rows"
     ELSE /\ dpc' = "failed"
          /\ UNCHANGED cards
  /\ pc' = "idle"
  /\ UNCHANGED <<fields, field_names, has_html, property_indexes,
                 reserved_names, seen_names, count, yielded, caught, sink,
                 raised, card, deck_header, out, stream, pos, col, header,
                 names_arg, wire_header, lookup, otherVars>>

\* The rows are exhausted: the separator setting is put back and
\* AnkiDeck(header, cards) is returned.
ParseReturn ==
  /\ dpc = "rows"
  /\ pos = Len(stream)
  /\ header' = DictSet(header, _ANKI_EXPORT_HEADER_SETTING_SEPARATOR_NAME,
                       PyStr(_ANKI_EXPORT_HEADER_SETTING_SEPARATOR_TSV_STRING))
  /\ dpc' = "returned"
  /\ UNCHANGED <<cardVars, deck_header, out, stream, pos, col, names_arg, cards, wire_header, lookup, otherVars>>

\* AnkiCard.as_str_list: the values of self.fields, in the order of the dict.
as_str_list_names(c) == [i \in 1..Len(c) |-> c[i][1]]
as_str_list(c) == [i \in 1..Len(c) |-> c[i][2]]

\* The cells of a row joined by the delimiter of the dialect.
RECURSIVE Delimited(_, _)
Delimited(content, delimiter) ==
  IF content = <<>> THEN <<>>
  ELSE IF Len(content) = 1 THEN Atoms(content[1])
  ELSE Delimited(SubSeq(content, 1, Len(content) - 1), delimiter)
         \o <<delimiter>> \o Atoms(content[Len(content)])

\* csv.writer(f, dialect='excel-tab').writerow(content): the cells joined by
\* tabs and ended by CR LF; a row of one empty cell is written as a pair of
\* quotes. (No cell of the model holds a tab, a quote, CR or LF, which would
\* be quoted.)
writerow_excel(content) ==
  IF content = <<"">> THEN <<"\"\"", "\r", "\n">>
  ELSE Delimited(content, ",") \o <<"\r", "\n">>
writerow(content) ==
  IF content = <<"">> THEN <<"\"\"", "\r", "\n">>
  ELSE Delimited(content, "\t") \o <<"\r", "\n">>

\* AnkiDeck.write_as_tsv: write_header, then card.write_as_tsv(w) for every
\* card of self.cards in order.
write_as_tsv(self_header, self_cards) ==
  LET w == write_header(self_header)
  IN IF w.raises # "none"
     THEN [raises |-> w.raises, lines |-> w.lines,
           self_header |-> w.self_header, self_cards |-> self_cards]
     ELSE [raises |-> "none",
           lines |-> w.lines \o
             [r \in 1..Len(self_cards) |-> writerow(as_str_list(self_cards[r]))],
           self_header |-> w.self_header, self_cards |-> self_cards]

\* The deck returned by AnkiDeck.from_file is written with write_as_tsv.
DeckWriteAsTsv ==
  /\ dpc = "returned"
  /\ LET w == write_as_tsv(header, cards)
     IN /\ out' = w.lines
        /\ raised' = w.raises
        /\ header' = w.self_header
        /\ cards' = w.self_cards
  /\ deck_header' = header
  /\ dpc' = "rewritten"
  /\ UNCHANGED <<cardVarsButRaised, stream, pos, col, names_arg, wire_header, lookup, otherVars>>

\* The deck whose header was written is written with write_header again.
DeckWriteHeaderAgain ==
  /\ dpc = "written"
  /\ LET w == write_header(deck_header)
     IN /\ deck_header' = w.self_header
        /\ out' = w.lines
        /\ raised' = w.raises
  /\ dpc' = "written_twice"
  /\ UNCHANGED <<cardVarsButRaised, stream, pos, col, header, names_arg, cards, wire_header, lookup, otherVars>>

\* The deck that was written with write_as_tsv is written again.
DeckWriteAsTsvAgain ==
  /\ dpc = "rewritten"
  /\ LET w == write_as_tsv(header, cards)
     IN /\ out' = w.lines
        /\ raised' = w.raises
        /\ header' = w.self_header
        /\ cards' = w.self_cards
  /\ dpc' = "rewritten_twice"
  /\ UNCHANGED <<cardVarsButRaised, deck_header, stream, pos, col, names_arg, wire_header, lookup, otherVars>>

\* ---------------------------------------------------------------------------
\* Gaggle: a list of decks and the writing of decks to files
\* ---------------------------------------------------------------------------

MaxDecks == 2
MaxOthers == 2

_ANKI_NOTESINPLAINTEXT_EXT == ".txt"
GENERIC_EXPORT_FILE_NAME == "GaggleFile"

NoException == [exc |-> "none"]
Exception(exc) == [exc |-> exc]
DecksNotWrittenException(last_deck_written) ==
  [exc |-> "DecksNotWrittenException", last_deck_written |-> last_deck_written]

\* Decks as AnkiDeck.from_file returns them: the gaggle-format header and
\* the cards of an export without data rows and of an export with a guid
\* column and one row.
ExportedDecks ==
  { [header |-> << <<"separator", PyStr("tab")>> >>, cards |-> <<>>],
    [header |-> << <<"guid_idx", PyInt(0)>>, <<"separator", PyStr("tab")>> >>,
     cards |-> << << <<"GUID", "r0c0">>, <<"Field1", "r0c1">> >> >>] }

FilenameArguments == {None, PyStr(""), PyStr("deck"), PyStr("GaggleFile")}
FileTypeArguments == {".txt", ".apkg"}
OtherNames == {"GaggleFile0", "GaggleFile1", "deck", "deck0"}
OtherContent == << <<"other">> >>

Put(dir, name, content) ==
  [n \in DOMAIN dir \cup {name} |-> IF n = name THEN content ELSE dir[n]]

\* os.path.isfile(file_path); destination is the one directory of the model
\* and extension is '' (the defaults of write_deck_to_file up to the
\* directory's name).
isfile(path) == path \in DOMAIN directory

\* Gaggle.add_deck
add_deck ==
  /\ gpc = "idle"
  /\ Len(decks) < MaxDecks
  /\ \E deck \in ExportedDecks : decks' = Append(decks, deck)
  /\ UNCHANGED <<cardVars, deckVars, lookup, first, reformat_direction>>
  /\ UNCHANGED <<gpc, caller, directory, settled, pathVars, loopVars, gaggle_raised>>

\* Another writer of the destination directory creates a file.
OtherWriterCreates ==
  /\ Cardinality(DOMAIN settled \cap OtherNames) < MaxOthers
  /\ gpc \notin {"done", "failed"}
  /\ \E name \in OtherNames \ DOMAIN directory :
       /\ directory' = Put(directory, name, OtherContent)
       /\ settled' = Put(settled, name, OtherContent)
  /\ UNCHANGED <<cardVars, deckVars, lookup, first, reformat_direction>>
  /\ UNCHANGED <<gpc, caller, decks, pathVars, loopVars, gaggle_raised>>

\* The start of write_deck_to_file(deck, filename, file_type) up to the
\* loop of _generate_unique_file_path.
EnterWriteDeckToFile(deck, filename_arg, file_type_arg) ==
  LET name == IF filename_arg = None \/ filename_arg.str = ""
              THEN GENERIC_EXPORT_FILE_NAME ELSE filename_arg.str
  IN /\ deck_arg' = deck
     /\ file_type' = file_type_arg
     /\ filename' = name
     /\ file_path' = ""
     /\ IF name = GENERIC_EXPORT_FILE_NAME
        THEN modified_filename' = name \o FormatInt(0) /\ tag' = 1
        ELSE modified_filename' = name /\ tag' = 0
     /\ gpc' = "check"

\* gaggle.write_deck_to_file(deck, filename, file_type) is called.
WriteDeckToFile ==
  /\ gpc = "idle"
  /\ caller' = "write_deck_to_file"
  /\ \E deck \in 1..Len(decks), filename_arg \in FilenameArguments,
        file_type_arg \in FileTypeArguments :
       EnterWriteDeckToFile(deck, filename_arg, file_type_arg)
  /\ UNCHANGED <<cardVars, deckVars, lookup, first, reformat_direction>>
  /\ UNCHANGED <<decks, directory, settled, loopVars, gaggle_raised>>

\* One turn of the loop of _generate_unique_file_path.
CheckFileExists ==
  /\ gpc = "check"
  /\ file_path' = modified_filename
  /\ IF isfile(modified_filename)
     THEN /\ modified_filename' = filename \o FormatInt(tag)
          /\ tag' = tag + 1
          /\ gpc' = "check"
     ELSE /\ gpc' = "open"
          /\ UNCHANGED <<modified_filename, tag>>
  /\ UNCHANGED <<cardVars, deckVars, lookup, first, reformat_direction>>
  /\ UNCHANGED <<caller, decks, directory, settled, deck_arg, filename, file_type, loopVars, gaggle_raised>>

\* open(file_path, mode='w'): creates the file or empties the one there is.
OpenTruncating ==
  /\ gpc = "open"
  /\ directory' = Put(directory, file_path, <<>>)
  /\ gpc' = "opened"
  /\ UNCHANGED <<cardVars, deckVars, lookup, first, reformat_direction>>
  /\ UNCHANGED <<caller, decks, settled, pathVars, loopVars, gaggle_raised>>

\* open(file_path, **EXCLUSIVE_OPEN_PARAMS): mode 'x' creates the file and
\* fails with FileExistsError when there is one.
OpenExclusive ==
  /\ gpc = "open"
  /\ IF isfile(file_path)
     THEN /\ gaggle_raised' = Exception("FileExistsError")
          /\ gpc' = "failed"
          /\ UNCHANGED directory
     ELSE /\ directory' = Put(directory, file_path, <<>>)
          /\ gpc' = "opened"
          /\ UNCHANGED gaggle_raised
  /\ UNCHANGED <<cardVars, deckVars, lookup, first, reformat_direction>>
  /\ UNCHANGED <<caller, decks, settled, pathVars, loopVars>>

\* file_type in (_ANKI_NOTESINPLAINTEXT_EXT, _ANKI_NOTESINPLAINTEXT_EXT)
SupportedFileType_any(type) == TRUE
SupportedFileType(type) ==
  type \in {_ANKI_NOTESINPLAINTEXT_EXT, _ANKI_NOTESINPLAINTEXT_EXT}

\* The body of the with statement of write_deck_to_file and the closing of
\* the file: deck.write_as_tsv(f) or ValueError. The call returns to its
\* caller, which is the loop of write_all_decks_to_file or the user.
WriteContent ==
  /\ gpc = "opened"
  /\ LET deck == decks[deck_arg]
         w == write_as_tsv(deck.header, deck.cards)
         exc == IF SupportedFileType(file_type) THEN w.raises ELSE "ValueError"
         content == IF exc = "none" THEN w.lines ELSE <<>>
     IN /\ directory' = Put(directory, file_path, content)
        /\ settled' = IF file_path \in DOMAIN settled THEN settled
                      ELSE Put(settled, file_path, content)
        /\ IF exc # "none"
           THEN gaggle_raised' = Exception(exc) /\ gpc' = "failed"
           ELSE /\ UNCHANGED gaggle_raised
                /\ gpc' = IF caller = "write_deck_to_file" THEN "done"
                          ELSE "written"
  /\ UNCHANGED <<cardVars, deckVars, lookup, first, reformat_direction>>
  /\ UNCHANGED <<caller, decks, pathVars, loopVars>>

\* generate_flattened_kwargs_remove_sentinel(sentinel='', file_type=types):
\* one dictionary per element of types, without the entry when the element
\* is the sentinel.
generate_flattened_kwargs_remove_sentinel(types) ==
  [i \in 1..Len(types) |->
     IF types[i] = "" THEN <<>> ELSE << <<"file_type", types[i]>> >>]

\* The file_type of write_deck_to_file(deck, **next(flat_kwargs, {})) for
\* the i-th call of next.
NextFileType(types, i) ==
  LET flat_kwargs == generate_flattened_kwargs_remove_sentinel(types)
      group == IF i <= Len(flat_kwargs) THEN flat_kwargs[i] ELSE <<>>
  IN IF "file_type" \in DictKeys(group) THEN DictGet(group, "file_type")
     ELSE _ANKI_NOTESINPLAINTEXT_EXT

\* The statements of write_all_decks_to_file after its loop.
AfterLoop(last) ==
  IF last # PyInt(Len(decks) - 1)
  THEN gaggle_raised' = DecksNotWrittenException(last) /\ gpc' = "failed"
  ELSE UNCHANGED gaggle_raised /\ gpc' = "done"

\* gaggle.write_all_decks_to_file(file_type=types) is called; it runs up
\* to the loop of _generate_unique_file_path of the first deck, or to its
\* end when there is no deck.
WriteAllDecksToFile ==
  /\ gpc = "idle"
  /\ caller' = "write_all_decks_to_file"
  /\ last_written_deck_idx' = None
  /\ idx' = 0
  /\ \E types \in SeqsUpTo(FileTypeArguments \cup {""}, MaxDecks) :
       /\ file_types' = types
       /\ IF decks = <<>>
          THEN AfterLoop(None) /\ UNCHANGED pathVars
          ELSE /\ EnterWriteDeckToFile(1, None, NextFileType(types, 1))
               /\ UNCHANGED gaggle_raised
  /\ UNCHANGED <<cardVars, deckVars, lookup, first, reformat_direction>>
  /\ UNCHANGED <<decks, directory, settled>>

\* write_deck_to_file returned to the loop of write_all_decks_to_file: the
\* loop goes on with the next deck or ends.
WriteNextDeck ==
  /\ gpc = "written"
  /\ last_written_deck_idx' = PyInt(idx)
  /\ IF idx + 1 < Len(decks)
     THEN /\ idx' = idx + 1
          /\ EnterWriteDeckToFile(idx + 2, None, NextFileType(file_types, idx + 2))
          /\ UNCHANGED gaggle_raised
     ELSE /\ AfterLoop(PyInt(idx))
          /\ UNCHANGED <<idx, pathVars>>
  /\ UNCHANGED <<cardVars, deckVars, lookup, first, reformat_direction>>
  /\ UNCHANGED <<caller, decks, directory, settled, file_types>>

Init ==
  /\ pc = "idle"
  /\ fields = <<>>
  /\ field_names = <<>>
  /\ has_html = None
  /\ property_indexes = <<None, None, None, None>>
  /\ reserved_names = <<>>
  /\ seen_names = {}
  /\ count = 0
  /\ yielded = <<>>
  /\ caught = <<>>
  /\ sink = <<>>
  /\ raised = "none"
  /\ card = <<>>
  /\ dpc = "idle"
  /\ deck_header = <<>>
  /\ out = <<>>
  /\ stream = <<>>
  /\ pos = 0
  /\ header = <<>>
  /\ names_arg = <<>>
  /\ cards = <<>>
  /\ wire_header = <<>>
  /\ col = 0
  /\ lookup = None
  /\ first = None
  /\ reformat_direction = None
  /\ gpc = "idle"
  /\ caller = "none"
  /\ decks = <<>>
  /\ directory = <<>>
  /\ settled = <<>>
  /\ deck_arg = 0
  /\ filename = ""
  /\ file_type = ""
  /\ tag = 0
  /\ modified_filename = ""
  /\ file_path = ""
  /\ file_types = <<>>
  /\ idx = 0
  /\ last_written_deck_idx = None
  /\ gaggle_raised = NoException

NextCard ==
  \/ AnkiCardInit
  \/ GenReturn
  \/ GenReserved
  \/ GenPlain

NextHeader ==
  \/ DeckWriteHeader
  \/ ParseWrittenHeader

NextReformat ==
  \/ ReformatToGaggle
  \/ ReformatToAnki
  \/ ReformatHeader

\* A header reformatted to the internal naming and back.
SpecReformat == Init /\ [][NextReformat]_vars

NextRepeat ==
  \/ AnkiCardInit
  \/ GenReturn
  \/ GenReserved
  \/ GenPlain
  \/ AnkiCardAgain

\* Two AnkiCard(...) calls, one after the other, from equal inputs.
SpecRepeat == Init /\ [][NextRepeat]_vars

\* Writing a header and reading it back.
SpecHeader == Init /\ [][NextHeader]_vars

NextParse ==
  \/ ParseAnkiExport
  \/ CreateCard
  \/ GenReturn
  \/ GenReserved
  \/ GenPlain
  \/ CardDone
  \/ ParseReturn
  \/ DeckWriteAsTsv

\* AnkiDeck.from_file: the header, then one AnkiCard per row.
SpecParse == Init /\ [][NextParse]_vars

NextRead ==
  \/ ReadHeaderSettings

\* read_header_settings on the start of a file.
SpecRead == Init /\ [][NextRead]_vars

NextWrite ==
  \/ DeckWriteHeader
  \/ DeckWriteHeaderAgain
  \/ ParseAnkiExport
  \/ CreateCard
  \/ GenReturn
  \/ GenReserved
  \/ GenPlain
  \/ CardDone
  \/ ParseReturn
  \/ DeckWriteAsTsv
  \/ DeckWriteAsTsvAgain

\* Decks, made with a header or parsed from a file, that are written twice.
SpecWrite == Init /\ [][NextWrite]_vars

\* The card machine alone: one AnkiCard(...) call and the steps of its
\* generator.
SpecCard == Init /\ [][NextCard]_vars

-----------------------------------------------------------------------------
(* Accessors of AnkiCard *)

KeyError == [raises |-> "KeyError"]

\* AnkiCard.get_field: self.fields[field_name]
get_field_default(field_name) ==
  IF \E i \in 1..Len(card) : card[i][1] = field_name
  THEN PyStr(card[CHOOSE i \in 1..Len(card) : card[i][1] = field_name][2])
  ELSE None

get_field(field_name) ==
  IF \E i \in 1..Len(card) : card[i][1] = field_name
  THEN PyStr(card[CHOOSE i \in 1..Len(card) : card[i][1] = field_name][2])
  ELSE KeyError

tags == get_field("Tags")
deck_name == get_field("Deck")
note_type == get_field("Note Type")
guid == get_field("GUID")

\* The accessor of the reserved field at place r of _reserved_names.
Accessor(r) ==
  IF r = 1 THEN tags ELSE IF r = 2 THEN deck_name
  ELSE IF r = 3 THEN note_type ELSE guid

\* The names a caller looks up.
LookupNames == {"", "Foo", "Deck", "Field1", "GUID", "Other"}
PropertyNames == <<"tags", "deck_name", "note_type", "guid">>

\* card.get_field(name) on a card that was built.
GetField ==
  /\ pc = "done"
  /\ raised = "none"
  /\ dpc = "idle"
  /\ \E name \in LookupNames :
       lookup' = [call |-> "get_field", name |-> name, result |-> get_field(name)]
  /\ UNCHANGED <<cardVars, deckVars, otherVars>>

\* card.tags, card.deck_name, card.note_type or card.guid on a card that was
\* built.
ReservedAccessor ==
  /\ pc = "done"
  /\ raised = "none"
  /\ dpc = "idle"
  /\ \E r \in 1..4 :
       lookup' = [call |-> PropertyNames[r], name |-> _reserved_names[r],
                  result |-> Accessor(r)]
  /\ UNCHANGED <<cardVars, deckVars, otherVars>>

NextAccess ==
  \/ AnkiCardInit
  \/ GenReturn
  \/ GenReserved
  \/ GenPlain
  \/ GetField
  \/ ReservedAccessor

\* One AnkiCard(...) call and the lookups on the card it built.
SpecAccess == Init /\ [][NextAccess]_vars

\* Another writer creates a file while no method of the Gaggle runs.
OtherWriterBefore == gpc = "idle" /\ OtherWriterCreates

NextGaggle ==
  \/ add_deck
  \/ OtherWriterBefore
  \/ WriteDeckToFile
  \/ WriteAllDecksToFile
  \/ CheckFileExists
  \/ OpenExclusive
  \/ WriteContent
  \/ WriteNextDeck

SpecGaggle == Init /\ [][NextGaggle]_vars

NextRace ==
  \/ add_deck
  \/ OtherWriterCreates
  \/ WriteDeckToFile
  \/ WriteAllDecksToFile
  \/ CheckFileExists
  \/ OpenExclusive
  \/ WriteContent
  \/ WriteNextDeck

SpecRace == Init /\ [][NextRace]_vars

-----------------------------------------------------------------------------
(* Vocabulary of the claims *)

\* The default names by position, written out.
GenericNames == <<"Field0", "Field1", "Field2", "Field3", "Field4", "Field5">>

Built == pc = "done" /\ raised = "none"

Distinct(s) == \A i, j \in 1..Len(s) : i # j => s[i] # s[j]

CardNames == [i \in 1..Len(card) |-> card[i][1]]

\* The names claimed before the current position: the reserved canonical
\* names and the names yielded at positions without a reserved binding.
Claimed ==
  Range(_reserved_names) \cup
    {yielded[j] : j \in {k \in 1..Len(yielded) : (k - 1) \notin DOMAIN reserved_names}}

HeaderFieldNameMismatchWarning(overwritten_value, replacement_value) ==
  [category |-> "HeaderFieldNameMismatchWarning",
   overwritten_value |-> overwritten_value,
   replacement_value |-> replacement_value]

LeftoverArgumentWarning(leftovers) ==
  [category |-> "LeftoverArgumentWarning", leftovers |-> leftovers]

\* The generator stands at a position of the row.
AtReserved == pc = "gen" /\ HasField /\ count \in DOMAIN reserved_names
AtPlain == pc = "gen" /\ HasField /\ count \notin DOMAIN reserved_names
AtEnd == pc = "gen" /\ ~HasField

-----------------------------------------------------------------------------
(* C1 *)

-----------------------------------------------------------------------------
(* C2 *)

-----------------------------------------------------------------------------
(* C3 *)

\* C3: at a position with a reserved binding the generator goes on, yields
\* the reserved name, and emits one HeaderFieldNameMismatchWarning exactly
\* when the candidate is non-empty and differs from the reserved name, and no
\* other warning.
C3_ReservedNameWins ==
  [][AtReserved =>
       /\ pc' = "gen"
       /\ raised' = "none"
       /\ yielded' = Append(yielded, reserved_names[count])
       /\ caught' =
            IF HasName /\ Name # "" /\ Name # reserved_names[count]
            THEN Append(caught,
                        HeaderFieldNameMismatchWarning(Name, reserved_names[count]))
            ELSE caught]_vars

-----------------------------------------------------------------------------
(* C4 *)

\* C4 as stated: at a position without a reserved binding, a candidate that
\* is already claimed is replaced by Field{index} and exactly one
\* DuplicateWarning (duplicate, Field{index}) is emitted.
C4_DuplicateReplaced ==
  [][(AtPlain /\ HasName /\ Name \in Claimed) =>
       /\ pc' = "gen"
       /\ yielded' = Append(yielded, GenericNames[count + 1])
       /\ caught' = Append(caught,
            [category |-> "DuplicateWarning", duplicate_value |-> Name,
             replacement_value |-> GenericNames[count + 1]])]_vars

\* C4 amended: ... unless Field{index} is itself already claimed, in which
\* case the DuplicateWarning is emitted and resolution fails with ValueError
\* without yielding a name.
C4_DuplicateReplacedUnlessGenericClaimed ==
  [][(AtPlain /\ HasName /\ Name \in Claimed) =>
       /\ caught' = Append(caught,
            [category |-> "DuplicateWarning", duplicate_value |-> Name,
             replacement_value |-> GenericNames[count + 1]])
       /\ IF GenericNames[count + 1] \in Claimed
          THEN pc' = "done" /\ raised' = "ValueError" /\ yielded' = yielded
          ELSE /\ pc' = "gen"
               /\ raised' = "none"
               /\ yielded' = Append(yielded, GenericNames[count + 1])]_vars

C4_Witness ==
  /\ pc = "gen"
  /\ field_names = <<"Foo", "Foo">>
  /\ yielded = <<"Foo", "Field1">>
  /\ caught = <<[category |-> "DuplicateWarning", duplicate_value |-> "Foo",
                 replacement_value |-> "Field1"]>>

-----------------------------------------------------------------------------
(* C5 *)

\* C5: when the fields are exhausted and candidate names remain, the call
\* completes: the card is built from the names yielded, and one
\* LeftoverArgumentWarning listing every unconsumed candidate name is
\* delivered after the warnings caught so far.
C5_LeftoverNamesReported ==
  [][(AtEnd /\ HasName) =>
       /\ pc' = "done"
       /\ raised' = "none"
       /\ Len(card') = Len(fields)
       /\ sink' = sink \o caught \o
            <<LeftoverArgumentWarning(
                SubSeq(field_names, count + 1, Len(field_names)))>>]_vars

-----------------------------------------------------------------------------
(* C6 *)

\* The position at which the call stopped has no reserved binding, its
\* candidate is empty, absent or already claimed, and Field{index} is
\* already claimed.
GenericNameClaimed ==
  /\ HasField
  /\ count \notin DOMAIN reserved_names
  /\ (~HasName \/ Name = "" \/ Name \in Claimed)
  /\ GenericNames[count + 1] \in Claimed

\* C6: resolution fails with ValueError exactly when it stands at such a
\* position, and completes in every other case.
C6_ValueErrorExactlyOnGenericClash ==
  pc = "done" =>
    /\ raised = "ValueError" <=> GenericNameClaimed
    /\ ~GenericNameClaimed => raised = "none"

-----------------------------------------------------------------------------
(* C7 *)

\* C7: when the call has ended, normally or by the fatal ValueError, every
\* warning emitted during resolution has been delivered to the caller.
C7_EveryWarningDelivered ==
  (pc = "done" /\ raised \in {"none", "ValueError"}) => sink = caught

-----------------------------------------------------------------------------
(* C8, C9 *)

\* The six settings in the order they are written: wire name, internal key.
WireSettings ==
  << <<"separator", "separator">>, <<"html", "has_html">>,
     <<"guid column", "guid_idx">>, <<"notetype column", "note_type_idx">>,
     <<"deck column", "deck_idx">>, <<"tags column", "tags_idx">> >>

\* The line '#name:value' of a setting, a column index written 1-indexed.
ExpectedLine(wire_name, v) ==
  <<"#", wire_name, ":", IF IsInt(v) THEN Decimals[v.int + 2] ELSE v.str, "\n">>

\* One line for every setting of h whose value is not None, in the fixed
\* order.
ExpectedLines(h) ==
  LET present == SelectSeq(WireSettings, LAMBDA w : DictGet(h, w[2]) # None)
  IN [i \in 1..Len(present) |->
        ExpectedLine(present[i][1], DictGet(h, present[i][2]))]

\* C8: for every internal header h, write_header completes and
\* parse_header_settings of the written text yields a mapping that equals h
\* on every setting whose value in h is not None.
C8_HeaderRoundTrip ==
  /\ dpc = "written" => raised = "none"
  /\ dpc = "parsed" =>
       /\ raised = "none"
       /\ \A k \in DictKeys(deck_header) :
            DictGet(deck_header, k) # None =>
              DictGet(header, k) = DictGet(deck_header, k)

\* C9: write_header completes normally on a header with absent or None
\* settings, writes no line for them and one line for every other setting.
C9_NoneAndAbsentOmitted ==
  dpc = "written" =>
    /\ raised = "none"
    /\ out = ExpectedLines(deck_header)

-----------------------------------------------------------------------------
(* C10 *)

IsHeaderLine(line) == line # <<>> /\ line[1] = "#"

\* The number of lines of the longest prefix of f that start with '#'.
HeaderPrefixLen(f) ==
  CHOOSE n \in 0..Len(f) :
    /\ \A i \in 1..n : IsHeaderLine(f[i])
    /\ n < Len(f) => ~IsHeaderLine(f[n + 1])

\* The lines after the header lines: the rows of the file.
DataRows == SubSeq(stream, HeaderPrefixLen(stream) + 1, Len(stream))

\* C10: whatever subset of the well-formed header lines the file holds (the
\* separator, when present, being tab), the parse succeeds and decodes one card per row.
\* Stated for the calls without candidate names, in which the naming of a row
\* cannot fail.
C10_AnyHeaderSubsetParses ==
  (/\ dpc \in {"returned", "failed"}
   /\ names_arg = <<>>
   /\ \A i \in 1..Len(stream) :
        stream[i] \notin {WireLine("separator", "comma"), MalformedLine}) =>
    /\ dpc = "returned"
    /\ raised = "none"
    /\ Len(cards) = Len(DataRows)
    /\ \A r \in 1..Len(cards) :
         [i \in 1..Len(cards[r]) |-> cards[r][i][2]] = RowOf(DataRows[r])

-----------------------------------------------------------------------------
(* C11 *)

\* The header of the stream declares a separator other than tab.
DeclaresOtherSeparator ==
  \E i \in 1..Len(stream) : stream[i] = WireLine("separator", "comma")

\* C11: when the parsed header declares a separator value other than 'tab',
\* the parse call ends with an exception that reaches the caller; no deck is
\* returned. Stated for the files whose header lines are all well formed, in
\* which the header itself is accepted.
C11_OtherSeparatorIsFatal ==
  (/\ dpc \in {"returned", "failed"}
   /\ DeclaresOtherSeparator
   /\ \A i \in 1..Len(stream) : stream[i] # MalformedLine) =>
    /\ dpc = "failed"
    /\ raised # "none"

-----------------------------------------------------------------------------
(* C12 *)

\* The stream that is read holds a header line without the ':' delimiter.
HasMalformedHeaderLine ==
  \E i \in 1..Len(stream) : stream[i] = MalformedLine

\* C12: a header line without the ':' delimiter makes the parse fail with an
\* exception (ValueError, from unpacking the split line) that reaches the
\* caller: no header mapping is returned, no row is read, no card is built
\* and no deck is returned.
C12_MalformedHeaderLineIsFatal ==
  HasMalformedHeaderLine =>
    /\ dpc = "failed"
    /\ raised = "ValueError"
    /\ header = <<>>
    /\ cards = <<>>
    /\ pc = "idle"

\* A file with the separator line, the malformed line and rows was read.
C12_Witness ==
  /\ HasMalformedHeaderLine
  /\ stream[1] = WireLine("separator", "tab")
  /\ Len(DataRows) = MaxRows
  /\ dpc = "failed"
  /\ raised = "ValueError"

-----------------------------------------------------------------------------
(* C13 *)

\* create_cards_from_tsv starts the AnkiCard of the next row.
RowStarts == dpc = "rows" /\ dpc' = "card" /\ pc' = "gen"

NamesOf(c) == [i \in 1..Len(c) |-> c[i][1]]

\* C13 as stated: one set of claimed names is shared by all rows of the deck;
\* the names claimed while resolving a row are already claimed when the next
\* row is resolved.
C13_ContextSharedAcrossRows ==
  [][(RowStarts /\ cards # <<>>) => seen_names \subseteq seen_names']_vars

\* C13 amended: every row is resolved in a context of its own, which holds
\* only the four reserved canonical names when the row starts; uniqueness is
\* per row, and every card of a returned deck whose rows have one width
\* carries the same names.
C13_ContextPerRow ==
  [][/\ RowStarts => seen_names' = Range(_reserved_names)
     /\ (dpc = "rows" /\ dpc' = "returned") =>
          \A r \in 1..Len(cards) : NamesOf(cards[r]) = NamesOf(cards[1])]_vars

\* A deck of two rows was returned, both cards naming their first field Foo.
C13_Witness ==
  /\ dpc = "returned"
  /\ Len(cards) = 2
  /\ Len(cards[1]) = 2
  /\ NamesOf(cards[1]) = <<"Foo", "Field1">>
  /\ NamesOf(cards[2]) = <<"Foo", "Field1">>

-----------------------------------------------------------------------------
(* C14 *)

\* The internal keys of the four column-index settings.
ColumnIndexKeys == {"guid_idx", "note_type_idx", "deck_idx", "tags_idx"}

\* C14: in every deck returned by parsing, the column-index settings present
\* in the header are mutually distinct integers within [0, field_count) of
\* the deck's rows.
C14_ColumnIndexesDistinctInRange ==
  dpc = "returned" =>
    LET present == ColumnIndexKeys \cap DictKeys(header)
    IN /\ \A k \in present :
            /\ IsInt(DictGet(header, k))
            /\ \A r \in 1..Len(cards) :
                 /\ 0 <= DictGet(header, k).int
                 /\ DictGet(header, k).int < Len(cards[r])
       /\ \A k1, k2 \in present :
            k1 # k2 => DictGet(header, k1) # DictGet(header, k2)

-----------------------------------------------------------------------------
(* C15 *)

HeaderLines == SubSeq(stream, 1, HeaderPrefixLen(stream))

\* The card of a row in which position k (1-indexed) is the GUID column and
\* every other field has the default name of its 0-based position.
GuidCard(row, k) ==
  [i \in 1..Len(row) |->
     <<IF i = k THEN "GUID" ELSE GenericNames[i], row[i]>>]

\* C15: a stream whose header is '#separator:tab' and '#guid column:k',
\* parsed without candidate names, yields one card per row; in each card the
\* field at 0-based position k-1 is named GUID and every other field is named
\* Field{i} by its 0-based position, the values being those of the row; the
\* returned header holds guid_idx = k-1.
C15_GuidColumnNamed ==
  \A k \in 1..2 :
    (/\ dpc \in {"returned", "failed"}
     /\ names_arg = <<>>
     /\ HeaderLines = <<WireLine("separator", "tab"),
                        WireLine("guid column", Decimals[k + 1])>>) =>
      /\ dpc = "returned"
      /\ raised = "none"
      /\ DictGet(header, "guid_idx") = PyInt(k - 1)
      /\ Len(cards) = Len(DataRows)
      /\ \A r \in 1..Len(cards) : cards[r] = GuidCard(RowOf(DataRows[r]), k)

\* Header guid column 1 and one row of three values.
C15_Witness ==
  /\ dpc = "returned"
  /\ names_arg = <<>>
  /\ HeaderLines = <<WireLine("separator", "tab"), WireLine("guid column", "1")>>
  /\ DictGet(header, "guid_idx") = PyInt(0)
  /\ cards = << << <<"GUID", "r0c0">>, <<"Field1", "r0c1">>, <<"Field2", "r0c2">> >> >>

-----------------------------------------------------------------------------
(* C16 *)

\* C16: write_as_tsv writes the header lines first and then one row per card
\* in the order the cards were read; for a deck parsed from a tab-separated
\* file the rows written are as many as the rows read, in the original order,
\* each with the original values in the original column order.
C16_WriteReproducesRows ==
  dpc = "rewritten" =>
    LET head == ExpectedLines(header)
        n == Len(head)
    IN /\ raised = "none"
       /\ SubSeq(out, 1, n) = head
       /\ Len(out) = n + Len(cards)
       /\ \A r \in 1..Len(cards) : RowOf(out[n + r]) = as_str_list(cards[r])
       /\ DictGet(header, "separator") = PyStr("tab") =>
            /\ Len(out) = n + Len(DataRows)
            /\ \A r \in 1..Len(DataRows) :
                 RowOf(out[n + r]) = RowOf(DataRows[r])

\* A deck of MaxRows rows of MaxCols values with a header of three settings
\* was parsed and written back.
C16_Witness ==
  /\ dpc = "rewritten"
  /\ raised = "none"
  /\ Len(cards) = MaxRows
  /\ Len(cards[1]) = MaxCols
  /\ Len(out) = 3 + MaxRows
  /\ out[3] = WireLine("guid column", "1")
  /\ out[3 + MaxRows] = DataRows[MaxRows]

-----------------------------------------------------------------------------
(* C17 *)

\* C17: for every card constructed from the values fields, with any candidate
\* names and reserved indexes, as_str_list() returns exactly fields: as many
\* values, the same values, in the same order.
C17_AsStrListIsTheRow ==
  Built => as_str_list(card) = fields

\* A card of two values was built from candidate names that repeat a name and
\* with a reserved index declared.
C17_Witness ==
  /\ Built
  /\ fields = <<"v0", "v1">>
  /\ field_names = <<"Foo", "Foo">>
  /\ property_indexes[1] = PyInt(2)
  /\ sink # <<>>
  /\ as_str_list(card) = <<"v0", "v1">>

-----------------------------------------------------------------------------
(* C18 *)

\* C18: get_field(name) returns the value stored under name when name is one
\* of the card's field names and fails with KeyError otherwise; a reserved
\* accessor fails with KeyError exactly when no field of the card carries its
\* canonical name; a lookup, failed or not, leaves the card as it was.
C18_LookupOrKeyError ==
  [][lookup' # lookup =>
       LET at == {i \in 1..Len(card) : CardNames[i] = lookup'.name}
       IN /\ card' = card
          /\ at # {} => \E i \in at : lookup'.result = PyStr(fields[i])
          /\ at = {} <=> lookup'.result = KeyError]_vars

\* deck_name failed on a card of two fields whose candidate name 'Deck' was
\* replaced.
C18_Witness ==
  /\ lookup = [call |-> "deck_name", name |-> "Deck", result |-> KeyError]
  /\ field_names = <<"Deck">>
  /\ CardNames = <<"Field0", "Field1">>

-----------------------------------------------------------------------------
(* C19 *)

\* C19: in every constructed card each of 'Tags', 'Deck', 'Note Type', 'GUID'
\* is a field name only at the index declared for it through its *_idx
\* parameter; a candidate name equal to a reserved canonical name at a
\* position without that binding is not the name of the field.
C19_ReservedNamesOnlyAtDeclaredIndex ==
  Built =>
    /\ \A i \in 1..Len(card), r \in 1..4 :
         CardNames[i] = _reserved_names[r] => property_indexes[r] = PyInt(i - 1)
    /\ \A i \in 1..Len(card), r \in 1..4 :
         (/\ i <= Len(field_names)
          /\ field_names[i] = _reserved_names[r]
          /\ property_indexes[r] # PyInt(i - 1)) => CardNames[i] # field_names[i]

\* The candidate name 'Deck' was given for the second field of a card without
\* a deck index, and the field was named Field1.
C19_Witness ==
  /\ Built
  /\ field_names = <<"Foo", "Deck">>
  /\ property_indexes = <<None, None, None, None>>
  /\ CardNames = <<"Foo", "Field1">>
  /\ sink = <<DuplicateWarning("Deck", "Field1")>>

-----------------------------------------------------------------------------
(* C20 *)

\* The internal key and value of a setting in the naming of the file: the key
\* by the table of the six settings, an integer value less one.
InternalItem(item) ==
  LET w == CHOOSE w \in Range(WireSettings) : w[1] = item[1]
  IN <<w[2], IF IsInt(item[2]) THEN PyInt(item[2].int - 1) ELSE item[2]>>

\* C20: for every header over the six keys of the file format,
\* reformat_header_settings with ANKI_TO_GAGGLE gives the internal keys with
\* every column index k as k-1, and GAGGLE_TO_ANKI applied to the result
\* gives back the original keys and the original column indexes.
C20_ReformatInvertible ==
  /\ dpc = "reformatted" =>
       /\ raised = "none"
       /\ header = [i \in 1..Len(wire_header) |-> InternalItem(wire_header[i])]
  /\ dpc = "restored" =>
       /\ raised = "none"
       /\ header = wire_header

\* The header guid 1, notetype 2, deck 3, tags 7 was reformatted and restored.
C20_Witness ==
  /\ dpc = "restored"
  /\ raised = "none"
  /\ wire_header = << <<"separator", PyStr("tab")>>, <<"html", PyStr("true")>>,
                      <<"guid column", PyInt(1)>>, <<"notetype column", PyInt(2)>>,
                      <<"deck column", PyInt(3)>>, <<"tags column", PyInt(7)>> >>
  /\ header = wire_header

-----------------------------------------------------------------------------
(* C21 *)

\* C21: of two cards constructed one after the other from equal field
\* values, candidate names and reserved indexes, the second gets the names
\* and the diagnostics of the first, recorded and delivered, and ends as the
\* first did; the candidate-name list is as it was.
C21_SecondConstructionEqualsFirst ==
  (first # None /\ pc = "done") =>
    /\ raised = first.raised
    /\ yielded = first.yielded
    /\ card = first.card
    /\ caught = first.caught
    /\ sink = first.sink \o first.sink
    /\ field_names = first.field_names
    /\ fields = first.fields

\* Two cards were built from the candidate names Foo, Foo; each construction
\* delivered its DuplicateWarning.
C21_Witness ==
  /\ first # None
  /\ pc = "done"
  /\ raised = "none"
  /\ field_names = <<"Foo", "Foo">>
  /\ CardNames = <<"Foo", "Field1">>
  /\ sink = <<DuplicateWarning("Foo", "Field1"), DuplicateWarning("Foo", "Field1")>>


\* ---------------------------------------------------------------------------
\* Gaggle.write_deck_to_file and Gaggle.write_all_decks_to_file
\* ---------------------------------------------------------------------------

\* The names _generate_unique_file_path tries, in order, for a file name.
PathCandidates ==
  [GaggleFile |-> <<"GaggleFile0", "GaggleFile1", "GaggleFile2", "GaggleFile3", "GaggleFile4">>,
   deck |-> <<"deck", "deck0", "deck1", "deck2", "deck3">>]

\* The text of the file a deck of ExportedDecks is exported to.
ExpectedFile(deck) ==
  IF deck.cards = <<>>
  THEN << <<"#", "separator", ":", "tab", "\n">> >>
  ELSE << <<"#", "separator", ":", "tab", "\n">>,
          <<"#", "guid column", ":", "1", "\n">>,
          <<"r0c0", "\t", "r0c1", "\r", "\n">> >>

\* file_path is the first name of the candidates of filename that no file
\* of the directory has, but for the file of this call.
AtGeneratedPath ==
  \E k \in 1..Len(PathCandidates[filename]) :
    /\ file_path = PathCandidates[filename][k]
    /\ \A j \in 1..(k - 1) : PathCandidates[filename][j] \in DOMAIN directory

WriteDeckToFileEnded ==
  caller = "write_deck_to_file" /\ gpc \in {"done", "failed"}

\* C22: a call of write_deck_to_file with a file_type other than '.txt'
\* ends with ValueError; a call with '.txt' ends without an exception and
\* the file at the generated path holds the deck's header lines and rows.
C22_FileTypeDecidesTheWrite ==
  WriteDeckToFileEnded =>
    IF file_type = ".txt"
    THEN /\ gaggle_raised = NoException
         /\ AtGeneratedPath
         /\ directory[file_path] = ExpectedFile(decks[deck_arg])
    ELSE gaggle_raised = Exception("ValueError")

C22_Witness ==
  /\ WriteDeckToFileEnded
  /\ file_type = ".txt"
  /\ filename = "deck"
  /\ file_path = "deck0"
  /\ Len(directory[file_path]) = 3

WriteAllDecksToFileEnded ==
  caller = "write_all_decks_to_file" /\ gpc \in {"done", "failed"}

\* The number of files of the directory that hold an exported deck.
DecksWritten ==
  Cardinality({f \in DOMAIN directory :
                 directory[f] \in {ExpectedFile(deck) : deck \in ExportedDecks}})

\* C23: when write_all_decks_to_file has ended, it raised
\* DecksNotWrittenException only if some stored deck was not written, it
\* raised nothing if every stored deck was written, and the exception's
\* last_deck_written is the index of the last deck written, None if none.
C23_NotWrittenOnlyAfterFailure ==
  WriteAllDecksToFileEnded =>
    /\ gaggle_raised.exc = "DecksNotWrittenException" =>
         /\ DecksWritten < Len(decks)
         /\ gaggle_raised.last_deck_written =
              IF DecksWritten = 0 THEN None ELSE PyInt(DecksWritten - 1)
    /\ DecksWritten = Len(decks) => gaggle_raised = NoException

\* C24: every file that another writer created, or that an earlier
\* write_deck_to_file call of the Gaggle left, is in the directory with the
\* content it had then, at every point of every later call and after it,
\* whatever the other writers do between the existence check and the open.
C24_ExistingFilesKeepContent ==
  \A f \in DOMAIN settled :
    f \in DOMAIN directory /\ directory[f] = settled[f]

\* Another writer took the path between the check and the open: the call
\* failed and the other writer's file is as it was.
C24_Witness ==
  /\ WriteDeckToFileEnded
  /\ gaggle_raised = Exception("FileExistsError")
  /\ file_path = "deck0"
  /\ settled["deck0"] = OtherContent
  /\ directory["deck"] = OtherContent

\* ---------------------------------------------------------------------------
\* Generated field names
\* ---------------------------------------------------------------------------

\* The name at position k of yielded (1-based) was generated: the position
\* has no reserved name and its candidate is missing, empty or not the name
\* that was yielded.
Generated(k) ==
  /\ (k - 1) \notin DOMAIN reserved_names
  /\ \/ k > Len(field_names)
     \/ field_names[k] = ""
     \/ yielded[k] # field_names[k]

\* C25: every generated name is Field{i} for the 0-based position i of its
\* field, whatever names precede it; every DuplicateWarning is about a
\* position that has a candidate name and names Field{i} of that position
\* as the replacement, so positions past the end of the candidate list
\* cause no warning; a card built without candidate names and without
\* reserved indexes has the names Field0..Field{n-1}.
C25_GeneratedNameIsPositional ==
  /\ \A k \in 1..Len(yielded) : Generated(k) => yielded[k] = GenericNames[k]
  /\ \A j \in 1..Len(caught) :
       \E k \in 1..Len(field_names) :
         /\ (k - 1) \notin DOMAIN reserved_names
         /\ caught[j] = DuplicateWarning(field_names[k], GenericNames[k])
  /\ (pc = "done" /\ field_names = <<>> /\ DOMAIN reserved_names = {}) =>
       /\ raised = "none"
       /\ CardNames = SubSeq(GenericNames, 1, Len(fields))
       /\ sink = <<>>

C25_Witness ==
  /\ Built
  /\ Len(fields) = 2
  /\ 0 \in DOMAIN reserved_names
  /\ field_names = <<>>
  /\ CardNames[2] = "Field1"
  /\ sink = <<>>

\* ---------------------------------------------------------------------------
\* The stream after read_header_settings
\* ---------------------------------------------------------------------------

\* The cells of a line of the model, whose cells are not empty.
CellsOf(line) ==
  LET cells == SelectSeq(line, LAMBDA atom : atom \notin {"\t", "\r", "\n"})
  IN cells

\* read_header_settings has returned to _parse_anki_export.
HeaderRead ==
  dpc = "idle" /\ dpc' \in {"rows", "returned", "failed"} /\ raised' # "ValueError"

\* The first row was read and its card is the first card of the deck.
FirstCardAdded == dpc = "card" /\ dpc' = "rows" /\ cards = <<>>

\* C26: when read_header_settings returns, the stream stands at the first
\* character of the line after the longest prefix of lines that start with
\* '#' (the end of the stream if there is none); the first card holds all the
\* cells of that line, the first one in full.
C26_StreamLeftAtFirstDataLine ==
  [][/\ HeaderRead =>
          /\ pos' = HeaderPrefixLen(stream')
          /\ col' = 0
     /\ FirstCardAdded =>
          as_str_list(cards'[1]) = CellsOf(stream[HeaderPrefixLen(stream) + 1])]_vars

\* A file of one header line, a row and a row that starts with '#' was read:
\* the first card holds the first row from its first character on, and the
\* line that starts with '#' after it is a row, not a setting.
C26_Witness ==
  /\ dpc = "returned"
  /\ stream = <<WireLine("separator", "tab"), DataLine(0, 1), HashDataLine>>
  /\ pos = 3
  /\ [r \in 1..Len(cards) |-> as_str_list(cards[r])] = << <<"r0c0">>, <<"#html:true">> >>
  /\ DictKeys(header) = {"separator"}

\* ---------------------------------------------------------------------------
\* Writing a deck
\* ---------------------------------------------------------------------------

NoneFree(h) == \A i \in 1..Len(h) : h[i][2] # None

\* C27: write_header writes one line '#name:value' for every setting of the
\* header, a column 1-indexed, in the order separator, html, guid column,
\* notetype column, deck column, tags column, in whatever order the header
\* holds its settings; so are the header lines of a parsed deck, whose
\* header holds the separator last.
C27_HeaderLinesInFixedOrder ==
  /\ (dpc = "written" /\ NoneFree(deck_header)) =>
       /\ raised = "none"
       /\ out = ExpectedLines(deck_header)
  /\ dpc = "rewritten" =>
       /\ raised = "none"
       /\ Len(out) = Len(ExpectedLines(header)) + Len(cards)
       /\ SubSeq(out, 1, Len(ExpectedLines(header))) = ExpectedLines(header)

\* A header that holds guid_idx, has_html and separator in this order was
\* written as the separator, html and guid column lines.
C27_Witness ==
  /\ dpc = "written"
  /\ deck_header = << <<"guid_idx", PyInt(1)>>, <<"has_html", PyStr("true")>>,
                      <<"separator", PyStr("tab")>> >>
  /\ out = <<WireLine("separator", "tab"), WireLine("html", "true"),
             WireLine("guid column", "2")>>

\* C28: writing a deck leaves its header and its cards as they were,
\* whether the writing completes or fails: the header is still in the
\* internal naming after write_header, header and cards are the same before
\* and after write_as_tsv, and a second writing of the deck leaves them the
\* same again and has the outcome of the first, the same lines or the same
\* exception.
C28_WritingLeavesTheDeck ==
  [][/\ (dpc = "idle" /\ dpc' = "written") => deck_header' \in HeaderArguments
     /\ (dpc = "written" /\ dpc' = "written_twice") =>
          /\ deck_header' = deck_header
          /\ out' = out
          /\ raised' = raised
     /\ (dpc = "returned" /\ dpc' = "rewritten") =>
          /\ header' = header
          /\ cards' = cards
     /\ (dpc = "rewritten" /\ dpc' = "rewritten_twice") =>
          /\ header' = header
          /\ cards' = cards
          /\ out' = out
          /\ raised' = raised]_vars

\* A parsed deck of two cards was written twice.
C28_Witness ==
  /\ dpc = "rewritten_twice"
  /\ raised = "none"
  /\ Len(cards) = 2
  /\ DictGet(header, "guid_idx") = PyInt(0)
  /\ Len(out) = 4

\* ---------------------------------------------------------------------------
\* reformat_header_settings on any header
\* ---------------------------------------------------------------------------

\* The keys a direction supports: the names of the file for ANKI_TO_GAGGLE,
\* the internal names for GAGGLE_TO_ANKI.
SupportedKeys(to) ==
  IF to = "anki_to_gaggle" THEN {w[1] : w \in Range(WireSettings)}
  ELSE {w[2] : w \in Range(WireSettings)}

\* The key and value of an internal setting in the naming of the file: the
\* key by the table of the six settings, an integer value plus one.
WireItem(item) ==
  LET w == CHOOSE w \in Range(WireSettings) : w[2] = item[1]
  IN <<w[1], IF IsInt(item[2]) THEN PyInt(item[2].int + 1) ELSE item[2]>>

TranslatedItem(item, to) ==
  IF to = "anki_to_gaggle" THEN InternalItem(item) ELSE WireItem(item)

\* C29: reformat_header_settings on a header of string and integer values:
\* when the direction supports every key, the call completes and the header
\* holds the translation of every entry and nothing else; when it does not
\* support some key, the call raises KeyError and the header is as it was
\* before the call. Whatever the call raises, the header is as it was.
C29_ReformatAllOrNothing ==
  dpc = "translated" =>
    /\ raised # "none" => header = wire_header
    /\ NoneFree(wire_header) =>
         IF DictKeys(wire_header) \subseteq SupportedKeys(reformat_direction)
         THEN /\ raised = "none"
              /\ header = [i \in 1..Len(wire_header) |->
                             TranslatedItem(wire_header[i], reformat_direction)]
         ELSE /\ raised = "KeyError"
              /\ header = wire_header

\* A header whose third key the direction does not support, after two
\* entries it supports, raised KeyError and is as it was.
C29_Witness ==
  /\ dpc = "translated"
  /\ reformat_direction = "anki_to_gaggle"
  /\ raised = "KeyError"
  /\ wire_header = << <<"separator", PyStr("tab")>>, <<"guid column", PyInt(2)>>,
                      <<"foo", PyInt(1)>>, <<"tags column", PyInt(3)>> >>
  /\ header = wire_header

\* ---------------------------------------------------------------------------
\* The lines read_header_settings accepts
\* ---------------------------------------------------------------------------

\* The number of ':' in a line.
ColonCount(line) == Cardinality({i \in 1..Len(line) : line[i] = ":"})

\* The value of a setting whose text, without trailing whitespace, is text.
ExpectedValue(text) ==
  IF \E k \in 0..9 : Decimals[k + 1] = text
  THEN PyInt(CHOOSE k \in 0..9 : Decimals[k + 1] = text)
  ELSE PyStr(text)

\* C30: read_header_settings completes exactly when every line of the '#'
\* prefix of the stream holds one ':'; the header then holds, for every such
\* line in order, the name before the ':' and the text after it without
\* trailing whitespace, as an integer when it is an integer literal. A line
\* of the prefix with no ':' or with two makes the call raise ValueError.
C30_OneDelimiterPerHeaderLine ==
  dpc = "read" =>
    LET n == HeaderPrefixLen(stream)
        bad == {i \in 1..n : ColonCount(stream[i]) # 1}
    IN IF bad = {}
       THEN /\ raised = "none"
            /\ header = [i \in 1..n |->
                           <<stream[i][2], ExpectedValue(stream[i][4])>>]
       ELSE /\ raised = "ValueError"
            /\ header = <<>>

\* The lines '#html:true \r' and '#guid column:2\t' were read as the
\* settings html = 'true' and guid column = 2.
C30_Witness ==
  /\ dpc = "read"
  /\ raised = "none"
  /\ Len(stream) >= 3
  /\ SubSeq(stream, 1, 3) = <<WireLine("separator", "tab"), PaddedLine, PaddedIndexLine>>
  /\ header = << <<"separator", PyStr("tab")>>, <<"html", PyStr("true")>>,
                 <<"guid column", PyInt(2)>> >>

====
